---- MODULE Spec2Model ----
(***************************************************************************)
(* A model of the ppw-table component of ng-common-components:             *)
(* the path resolver (getPossibleNestedValue), the column value extraction *)
(* (getColumnValue), the type-specific formatting (mapValue), the record   *)
(* mapper (_mapToLocalKeyValuePairs) and the component's selection, row    *)
(* click and drag-drop handlers.                                           *)
(*                                                                         *)
(* JavaScript values are records tagged by their typeof/kind in field t.   *)
(* Strings are sequences of one-character strings, so that the selector    *)
(* rewriting (regular expression replace, split) is computed, character by *)
(* character, as the code computes it.  An exception thrown by the code is *)
(* the outcome TypeError, which every caller propagates.                   *)
(***************************************************************************)
EXTENDS Integers, Sequences, FiniteSets, TLC

VARIABLES
    call,              \* SpecFn: the stand-alone call of an exported function
    phase,             \* Spec: "constructed" | "ready" (after ngOnInit)
    data,              \* input signal data()
    columns,           \* signal columns()
    trackBy,           \* input signal trackBy()
    dataSource,        \* computed dataSource().data (or TypeError)
    nextId,            \* identity of the next view record objects created
    selection,         \* SelectionModel._selection, in insertion order
    selectionChanged,  \* payloads emitted on selectionChanged by the last step
    orderChanged       \* payloads emitted on orderChanged by the last step

vars == <<call, phase, data, columns, trackBy, dataSource, nextId,
          selection, selectionChanged, orderChanged>>

compVars == <<phase, data, columns, trackBy, dataSource, nextId,
              selection, selectionChanged, orderChanged>>

---------------------------------------------------------------------------
(* Bounds of the model. *)

\* longest structured selector path (number of segments)
MaxPath == 3
\* longest arbitrary selector string (number of characters)
MaxRawLen == 2
\* most records in a list handed to the record mapper on its own
MaxItems == 2
\* most rows of a table whose inputs change
MaxRows == 2
\* most recomputations of the data source after the first
MaxGen == 1
\* most rows of a table whose inputs stay as they were bound
MaxDragRows == 3
\* longest ignoreClick list
MaxIgnore == 2

---------------------------------------------------------------------------
(* JavaScript values. *)

Undefined == [t |-> "undefined"]
Null == [t |-> "null"]
Num(n) == [t |-> "number", n |-> n]
Str(s) == [t |-> "string", s |-> s]
Obj(f) == [t |-> "object", f |-> f]
Bool(b) == [t |-> "boolean", b |-> b]
Arr(l) == [t |-> "Array", elems |-> l]
\* the outcome of a call that throws
TypeError == [t |-> "TypeError"]
\* what a caller-supplied format function returns for raw
Formatted(raw) == [t |-> "formatted", of |-> raw]

\* The characters of selectors and property names.
WordChars == {"a", "0"}
Chars == WordChars \cup {".", "[", "]"}

\* ToBoolean(v), as the conditional operator applies it.
Truthy(v) ==
    CASE v.t = "undefined" -> FALSE
      [] v.t = "null" -> FALSE
      [] v.t = "number" -> v.n # 0
      [] v.t = "string" -> v.s # << >>
      [] v.t = "boolean" -> v.b
      [] OTHER -> TRUE

\* v != null (loose): neither null nor undefined.
NotNullish(v) == v.t \notin {"undefined", "null"}

\* The outcome of `k in v` for v that is neither null nor undefined:
\* "throw" for a primitive (TypeError), else whether v has the property.
InOperator(k, v) ==
    IF v.t \in {"number", "string", "boolean"} THEN "throw"
    ELSE IF v.t = "object" /\ k \in DOMAIN v.f THEN "true"
    ELSE "false"

---------------------------------------------------------------------------
(* The path resolver. *)

\* The length of the longest prefix of s made of word characters (\w+).
RECURSIVE WordRun(_)
WordRun(s) ==
    IF s # << >> /\ Head(s) \in WordChars THEN 1 + WordRun(Tail(s)) ELSE 0

\* A wrong selector.replace(/\[(\w+)]/, '.$1'): without the g flag only the
\* first bracketed index is rewritten.
RECURSIVE ReplaceFirstBracket(_)
ReplaceFirstBracket(s) ==
    IF s = << >> THEN << >>
    ELSE LET w == WordRun(Tail(s))
         IN  IF Head(s) = "[" /\ w > 0 /\ Len(s) >= w + 2 /\ s[w + 2] = "]"
             THEN <<".">> \o SubSeq(s, 2, w + 1) \o SubSeq(s, w + 3, Len(s))
             ELSE <<Head(s)>> \o ReplaceFirstBracket(Tail(s))

\* selector.replace(/\[(\w+)]/g, '.$1'): every "[", a longest run of word
\* characters, "]" becomes "." and the run; the scan resumes after the "]".
RECURSIVE ReplaceBrackets(_)
ReplaceBrackets(s) ==
    IF s = << >> THEN << >>
    ELSE LET w == WordRun(Tail(s))
         IN  IF Head(s) = "[" /\ w > 0 /\ Len(s) >= w + 2 /\ s[w + 2] = "]"
             THEN <<".">> \o SubSeq(s, 2, w + 1)
                      \o ReplaceBrackets(SubSeq(s, w + 3, Len(s)))
             ELSE <<Head(s)>> \o ReplaceBrackets(Tail(s))

\* selector.replace(/^\./, ''): strip one leading dot.
StripLeadingDot(s) ==
    IF s # << >> /\ Head(s) = "." THEN Tail(s) ELSE s

\* selector.split('.'): the pieces between the dots; never empty.
RECURSIVE SplitDots(_)
SplitDots(s) ==
    IF \A i \in 1..Len(s) : s[i] # "." THEN <<s>>
    ELSE LET d == CHOOSE i \in 1..Len(s) :
                      s[i] = "." /\ \A j \in 1..(i - 1) : s[j] # "."
         IN  <<SubSeq(s, 1, d - 1)>> \o SplitDots(SubSeq(s, d + 1, Len(s)))

\* The for loop of getPossibleNestedValue over the segments a.
RECURSIVE WalkSegments(_, _)
WalkSegments(record, a) ==
    IF a = << >> THEN record
    ELSE IF ~NotNullish(record) THEN Undefined
    ELSE LET in == InOperator(Head(a), record)
         IN  CASE in = "throw" -> TypeError
               [] in = "true" -> WalkSegments(record.f[Head(a)], Tail(a))
               [] OTHER -> Undefined

getPossibleNestedValue(record, selector) ==
    WalkSegments(record, SplitDots(StripLeadingDot(ReplaceBrackets(selector))))

---------------------------------------------------------------------------
(* Columns and caller-supplied functions. *)

\* A caller-supplied function: an accessor () => ret, an accessor
\* (r) => r[key], a format function, or a trackBy function.
ConstFn(v) == [t |-> "function", name |-> "const", ret |-> v]
PropFn(k) == [t |-> "function", name |-> "prop", key |-> k]
FormatFn == [t |-> "function", name |-> "format"]
IndexFn == [t |-> "function", name |-> "index"]

\* column.value(record) for the accessors above; reading a property of
\* null or undefined throws, of another primitive gives undefined.
CallAccessor(fn, record) ==
    IF fn.name = "const" THEN fn.ret
    ELSE IF ~NotNullish(record) THEN TypeError
    ELSE IF record.t = "object" /\ fn.key \in DOMAIN record.f
         THEN record.f[fn.key]
         ELSE Undefined

\* trackBy()(index, record): the row index, or an accessor of the record.
CallTrackBy(fn, index, record) ==
    IF fn.name = "index" THEN Num(index) ELSE CallAccessor(fn, record)

Column(type, name, value, formatFn) ==
    [type |-> type, name |-> name, value |-> value, formatFn |-> formatFn]

---------------------------------------------------------------------------
(* Column value extraction. *)

\* A wrong getColumnValue: a string value is taken as the literal value.
getColumnValueLiteral(column, record) ==
    IF column.value.t \in {"undefined", "null"}
    THEN [mappedValue |-> getPossibleNestedValue(record, column.name),
          resolved |-> <<column.name>>]
    ELSE IF column.value.t = "string"
    THEN [mappedValue |-> column.value, resolved |-> << >>]
    ELSE [mappedValue |-> CallAccessor(column.value, record),
          resolved |-> << >>]

\* getColumnValue with the selectors it handed to getPossibleNestedValue.
getColumnValueRun(column, record) ==
    IF column.value.t \in {"undefined", "null"}
    THEN [mappedValue |-> getPossibleNestedValue(record, column.name),
          resolved |-> <<column.name>>]
    ELSE IF column.value.t = "string"
    THEN [mappedValue |-> getPossibleNestedValue(record, column.value.s),
          resolved |-> <<column.value.s>>]
    ELSE [mappedValue |-> CallAccessor(column.value, record),
          resolved |-> << >>]

getColumnValue(column, record) == getColumnValueRun(column, record).mappedValue

---------------------------------------------------------------------------
(* Type-specific formatting. *)

\* case ColumnType.Date of mapValue.
mapDateValue(column, record) ==
    LET mappedDateValue == getColumnValue(column, record)
    IN  IF mappedDateValue = TypeError THEN TypeError
        ELSE IF Truthy(mappedDateValue) THEN Formatted(mappedDateValue)
        ELSE Undefined

\* A wrong Number case: the raw value is tested for truthiness.
mapNumberValueTruthy(column, record) ==
    LET mappedNumberValue == getColumnValue(column, record)
    IN  IF mappedNumberValue = TypeError THEN TypeError
        ELSE IF Truthy(column.formatFn) /\ Truthy(mappedNumberValue)
        THEN Formatted(mappedNumberValue)
        ELSE IF Truthy(mappedNumberValue) THEN mappedNumberValue
        ELSE Undefined

\* case ColumnType.Number of mapValue.
mapNumberValue(column, record) ==
    LET mappedNumberValue == getColumnValue(column, record)
    IN  IF mappedNumberValue = TypeError THEN TypeError
        ELSE IF Truthy(column.formatFn) /\ NotNullish(mappedNumberValue)
        THEN Formatted(mappedNumberValue)
        ELSE IF NotNullish(mappedNumberValue) THEN mappedNumberValue
        ELSE Undefined

mapValue(column, record) ==
    CASE column.type = "Date" -> mapDateValue(column, record)
      [] column.type = "Number" -> mapNumberValue(column, record)
      [] column.type = "Template" -> getColumnValue(column, record)
      [] OTHER -> getColumnValue(column, record)

---------------------------------------------------------------------------
(* The record mapper. *)

\* The for loop over the columns: mappedValues[column.name] = mapValue(..),
\* in the order of the columns.
RECURSIVE AssignColumns(_, _, _)
AssignColumns(mappedValues, cols, record) ==
    IF cols = << >> THEN mappedValues
    ELSE AssignColumns(
             [n \in DOMAIN mappedValues \cup {Head(cols).name} |->
                 IF n = Head(cols).name THEN mapValue(Head(cols), record)
                 ELSE mappedValues[n]],
             Tail(cols), record)

\* The records the mapper walks: a FormArray's controls, the array, or
\* nothing for null/undefined items.
RecordsOf(items) ==
    IF items.t = "FormArray" THEN items.controls
    ELSE IF NotNullish(items) THEN items.elems
    ELSE << >>

\* _mapToLocalKeyValuePairs(items, columns), reading trackBy(); the view
\* records are objects created by this call, ref is their identity.
\* A mapValue that throws ends the call.
_mapToLocalKeyValuePairs(items, cols, trackByFn, gen) ==
    LET records == RecordsOf(items)
    IN  IF \E i \in 1..Len(records), c \in 1..Len(cols) :
               mapValue(cols[c], records[i]) = TypeError
        THEN TypeError
        ELSE Arr([i \in 1..Len(records) |->
                 [ref |-> <<gen, i>>,
                  initialRecord |-> records[i],
                  mappedValues |-> AssignColumns([n \in {} |-> Undefined],
                                                 cols, records[i]),
                  trackByValue |-> CallTrackBy(trackByFn, i - 1, records[i])]])

---------------------------------------------------------------------------
(* The row click. *)

\* Array.prototype.indexOf: the first position of x, from 0, or -1.
IndexOf(l, x) ==
    IF \E i \in 1..Len(l) : l[i] = x
    THEN (CHOOSE i \in 1..Len(l) : l[i] = x /\ \A j \in 1..(i - 1) : l[j] # x) - 1
    ELSE -1

\* executeRowClick(record, columnName) reading options(): the arguments of
\* the calls of options.rows.onClick it makes.  In
\*   onClick && (ignoreClick?.indexOf(columnName) ?? -1 < 0)
\* the comparison binds tighter than ??, so the parenthesis is indexOf's
\* number when there is an ignoreClick list, and (-1 < 0) when there is none.
executeRowClick(opts, record, columnName) ==
    LET onClick == IF NotNullish(opts) /\ NotNullish(opts.rows)
                   THEN opts.rows.onClick ELSE Undefined
        ignoreClick == IF NotNullish(opts) /\ NotNullish(opts.columns)
                       THEN opts.columns.ignoreClick ELSE Undefined
        notIgnored == IF NotNullish(ignoreClick)
                      THEN Num(IndexOf(ignoreClick.elems, columnName))
                      ELSE Bool(-1 < 0)
    IN  IF Truthy(onClick) /\ Truthy(notIgnored) THEN <<record>> ELSE << >>

---------------------------------------------------------------------------
(* The inputs the exported functions are called with. *)

SeqsUpTo(S, n) == UNION {[1..k -> S] : k \in 0..n}

Prims == {Undefined, Null, Num(0), Num(1), Str(<< >>)}
Keys == {<<"a">>, <<"0">>}
\* objects (and arrays, by their index properties) of primitives
Objects1 == {Obj(f) : f \in UNION {[D -> Prims] : D \in SUBSET Keys}}
\* objects holding one such object
Objects2 == {Obj(f) : f \in UNION {[{k} -> Objects1] : k \in Keys}}
Records == {Undefined, Null} \cup Objects1 \cup Objects2

\* A structured selector: segments written a.k or a[k].
SegmentKeys == {<<"a">>, <<"0">>, <<"a", "0">>}
Segments == [key : SegmentKeys, bracket : BOOLEAN]
Paths == SeqsUpTo(Segments, MaxPath) \ {<< >>}

\* The path as written with its bracketed segments in brackets.
RECURSIVE Bracketed(_)
Bracketed(p) ==
    IF p = << >> THEN << >>
    ELSE LET g == p[Len(p)]
             front == Bracketed(SubSeq(p, 1, Len(p) - 1))
         IN  IF g.bracket THEN front \o <<"[">> \o g.key \o <<"]">>
             ELSE IF Len(p) > 1 THEN front \o <<".">> \o g.key
             ELSE g.key

\* The same path with each [k] written .k instead.
RECURSIVE Dotted(_)
Dotted(p) ==
    IF p = << >> THEN << >>
    ELSE LET g == p[Len(p)]
             front == Dotted(SubSeq(p, 1, Len(p) - 1))
         IN  IF g.bracket \/ Len(p) > 1 THEN front \o <<".">> \o g.key
             ELSE g.key

RawSelectors == SeqsUpTo(Chars, MaxRawLen)

ColumnNames == {<<"a">>, <<"0">>}
ColumnValues ==
    {Undefined, Null, PropFn(<<"a">>)}
        \cup {Str(x) : x \in {<< >>, <<"a">>, <<"a", ".", "0">>, <<"[", "0", "]">>}}
        \cup {ConstFn(v) : v \in Prims}
\* Date columns always have a format function, Number columns may.
Columns ==
    {Column(ty, n, v, f) :
        ty \in {"Text", "Template"}, n \in ColumnNames, v \in ColumnValues,
        f \in {Undefined}}
    \cup {Column("Date", n, v, FormatFn) : n \in ColumnNames, v \in ColumnValues}
    \cup {Column("Number", n, v, f) :
            n \in ColumnNames, v \in ColumnValues, f \in {Undefined, FormatFn}}

\* The record mapper's inputs: lists of a few records, as an array or as
\* the controls of a FormArray, or no list; columns of distinct names.
ItemRecords ==
    {Obj(<<"a">> :> Num(0)), Obj(<<"a">> :> Num(1)), Obj(<<"a">> :> Null),
     Obj(<<"a">> :> Obj(<<"0">> :> Num(1)))}
ItemLists ==
    {Undefined, Null}
        \cup {Arr(l) : l \in SeqsUpTo(ItemRecords, MaxItems)}
        \cup {[t |-> "FormArray", controls |-> l] :
                l \in SeqsUpTo(ItemRecords, MaxItems)}
ItemColumns ==
    {Column("Text", <<"a">>, Undefined, Undefined),
     Column("Text", <<"0">>, Str(<<"a", ".", "0">>), Undefined),
     Column("Number", <<"a">>, Undefined, FormatFn),
     Column("Date", <<"0">>, PropFn(<<"a">>), FormatFn),
     Column("Template", <<"0">>, ConstFn(Num(1)), Undefined)}
\* every list of columns of distinct names: there are two names
ColumnLists ==
    {l \in SeqsUpTo(ItemColumns, Cardinality(ColumnNames)) :
        \A i, j \in 1..Len(l) : l[i].name = l[j].name => i = j}
TrackByFns == {IndexFn, PropFn(<<"a">>), ConstFn(Num(0))}

\* The options of a table: none, rows without or with onClick, and with
\* onClick no columns, columns without ignoreClick, or an ignoreClick list.
OnClickFn == [t |-> "function", name |-> "onClick"]
RowsOptions(onClick) == [t |-> "object", onClick |-> onClick]
ColumnsOptions(ignoreClick) == [t |-> "object", ignoreClick |-> ignoreClick]
Options(rows, cols) == [t |-> "object", rows |-> rows, columns |-> cols]
TableOptions ==
    {Undefined, Options(RowsOptions(Undefined), Undefined)}
    \cup {Options(RowsOptions(f), ColumnsOptions(Arr(l))) :
            f \in {Undefined, OnClickFn}, l \in SeqsUpTo(ColumnNames, MaxIgnore)}
    \cup {Options(RowsOptions(OnClickFn), c) :
            c \in {Undefined, ColumnsOptions(Undefined)}}

Pending == [t |-> "pending"]

\* A call that has not returned yet.
PendingCall(op, args) == [op |-> op, pc |-> "pending", result |-> Pending] @@ args

---------------------------------------------------------------------------
(* The exported functions called on their own. *)

\* No component is constructed while the functions are called on their own.
NoComponent ==
    /\ phase = "none"
    /\ data = Undefined
    /\ columns = << >>
    /\ trackBy = Undefined
    /\ dataSource = << >>
    /\ nextId = 0
    /\ selection = << >>
    /\ selectionChanged = << >>
    /\ orderChanged = << >>

FnInit ==
    /\ NoComponent
    /\ \/ \E r \in Records, p \in Paths :
            call = PendingCall("getPossibleNestedValue",
                       [record |-> r, selector |-> Bracketed(p), path |-> p])
       \/ \E r \in Records, x \in RawSelectors :
            call = PendingCall("getPossibleNestedValue",
                       [record |-> r, selector |-> x, path |-> << >>])
       \/ \E o \in {"getColumnValue", "mapValue"}, c \in Columns, r \in Records :
            call = PendingCall(o, [column |-> c, record |-> r,
                                   resolved |-> << >>])
       \/ \E l \in ItemLists, cs \in ColumnLists, f \in TrackByFns :
            call = PendingCall("mapToLocalKeyValuePairs",
                       [items |-> l, columns |-> cs, trackBy |-> f])
       \/ \E o \in TableOptions, r \in ItemRecords, n \in ColumnNames :
            call = PendingCall("executeRowClick",
                       [options |-> o, record |-> r, columnName |-> n])

CallGetPossibleNestedValue ==
    /\ call.pc = "pending"
    /\ call.op = "getPossibleNestedValue"
    /\ call' = [call EXCEPT
                   !.pc = "returned",
                   !.result = getPossibleNestedValue(call.record, call.selector)]
    /\ UNCHANGED compVars

CallGetColumnValue ==
    /\ call.pc = "pending"
    /\ call.op = "getColumnValue"
    /\ LET run == getColumnValueRun(call.column, call.record)
       IN  call' = [call EXCEPT !.pc = "returned",
                                !.result = run.mappedValue,
                                !.resolved = run.resolved]
    /\ UNCHANGED compVars

CallMapValue ==
    /\ call.pc = "pending"
    /\ call.op = "mapValue"
    /\ call' = [call EXCEPT !.pc = "returned",
                            !.result = mapValue(call.column, call.record)]
    /\ UNCHANGED compVars

CallMapToLocalKeyValuePairs ==
    /\ call.pc = "pending"
    /\ call.op = "mapToLocalKeyValuePairs"
    /\ call' = [call EXCEPT
                   !.pc = "returned",
                   !.result = _mapToLocalKeyValuePairs(call.items, call.columns,
                                                       call.trackBy, 0)]
    /\ UNCHANGED compVars

\* result: the calls of onClick made.
CallExecuteRowClick ==
    /\ call.pc = "pending"
    /\ call.op = "executeRowClick"
    /\ call' = [call EXCEPT
                   !.pc = "returned",
                   !.result = executeRowClick(call.options, call.record,
                                              call.columnName)]
    /\ UNCHANGED compVars

FnNext ==
    \/ CallGetPossibleNestedValue
    \/ CallGetColumnValue
    \/ CallMapValue
    \/ CallMapToLocalKeyValuePairs
    \/ CallExecuteRowClick

SpecFn == FnInit /\ [][FnNext]_vars

---------------------------------------------------------------------------
(* The selection: new SelectionModel(true, [], true, compareWith), a Set of
   view records in insertion order.  View records are objects: two of them
   are the same object when their ref is the same. *)

\* A wrong compareWith: the same object, not the same trackByValue.
compareByReference(o1, o2) == o1.ref = o2.ref

\* (o1, o2) => o1.trackByValue === o2.trackByValue
compareWith(o1, o2) == o1.trackByValue = o2.trackByValue

\* Set.has: by object identity.
Has(sel, value) == \E i \in 1..Len(sel) : sel[i].ref = value.ref

\* SelectionModel._getConcreteValue: the first selected value compareWith
\* equates with the input, else the input.
GetConcreteValue(sel, value) ==
    IF \E i \in 1..Len(sel) : compareWith(value, sel[i])
    THEN sel[CHOOSE i \in 1..Len(sel) :
                 /\ compareWith(value, sel[i])
                 /\ \A j \in 1..(i - 1) : ~compareWith(value, sel[j])]
    ELSE value

\* SelectionModel.isSelected
IsSelected(sel, value) == Has(sel, GetConcreteValue(sel, value))

\* SelectionModel.select(value): _markSelected, then one change event with
\* the selected values when something was added.
Select(sel, value) ==
    LET concrete == GetConcreteValue(sel, value)
    IN  IF ~IsSelected(sel, concrete)
        THEN [selection |-> Append(sel, concrete),
              emitted |-> <<Append(sel, concrete)>>]
        ELSE [selection |-> sel, emitted |-> << >>]

\* SelectionModel.deselect(value): _unmarkSelected, then one change event
\* when something was removed.
Deselect(sel, value) ==
    LET concrete == GetConcreteValue(sel, value)
        rest == SelectSeq(sel, LAMBDA s : s.ref # concrete.ref)
    IN  IF IsSelected(sel, concrete)
        THEN [selection |-> rest, emitted |-> <<rest>>]
        ELSE [selection |-> sel, emitted |-> << >>]

\* SelectionModel.clear(): _unmarkAll, then one change event when the
\* selection was not empty.
Clear(sel) ==
    [selection |-> << >>,
     emitted |-> IF sel # << >> THEN <<(<< >>)>> ELSE << >>]

\* rows.forEach(row => selection.select(row)), from a selection and the
\* events emitted so far.
RECURSIVE SelectEach(_, _)
SelectEach(state, rows) ==
    IF rows = << >> THEN state
    ELSE LET one == Select(state.selection, Head(rows))
         IN  SelectEach([selection |-> one.selection,
                         emitted |-> state.emitted \o one.emitted],
                        Tail(rows))

\* The rows of dataSource().data that selection.isSelected.
SelectedRecords(rows, sel) == SelectSeq(rows, LAMBDA row : IsSelected(sel, row))

\* A wrong isAllSelected: the number of selected values, displayed or not,
\* against the number of rows.
isAllSelectedByCount(rows, sel) == Len(rows) # 0 /\ Len(sel) = Len(rows)

isAllSelected(rows, sel) ==
    IF Len(rows) = 0 THEN FALSE
    ELSE Len(SelectedRecords(rows, sel)) = Len(rows)

isSomeSelected(rows, sel) ==
    /\ Len(SelectedRecords(rows, sel)) > 0
    /\ Len(SelectedRecords(rows, sel)) < Len(rows)

\* masterToggle(): the selection and the change events after it.
masterToggle(rows, sel) ==
    IF isAllSelected(rows, sel) THEN Clear(sel)
    ELSE SelectEach([selection |-> sel, emitted |-> << >>], rows)

---------------------------------------------------------------------------
(* Drag and drop. *)

\* clamp(value, max) of the drag-drop utilities.
Clamp(value, max) ==
    LET low == IF max < value THEN max ELSE value
    IN  IF low < 0 THEN 0 ELSE low

\* A wrong moveItemInArray: the two items change places.
swapItemsInArray(array, fromIndex, toIndex) ==
    LET from == Clamp(fromIndex, Len(array) - 1)
        to == Clamp(toIndex, Len(array) - 1)
    IN  IF from = to THEN array
        ELSE [k \in 1..Len(array) |->
                 IF k - 1 = to THEN array[from + 1]
                 ELSE IF k - 1 = from THEN array[to + 1]
                 ELSE array[k]]

\* moveItemInArray(array, fromIndex, toIndex), indices counted from 0: the
\* items between the two places shift by one towards fromIndex.
moveItemInArray(array, fromIndex, toIndex) ==
    LET from == Clamp(fromIndex, Len(array) - 1)
        to == Clamp(toIndex, Len(array) - 1)
    IN  IF from = to THEN array
        ELSE [k \in 1..Len(array) |->
                 IF k - 1 = to THEN array[from + 1]
                 ELSE IF from < to /\ from <= k - 1 /\ k - 1 < to
                 THEN array[k + 1]
                 ELSE IF to < from /\ to < k - 1 /\ k - 1 <= from
                 THEN array[k - 1]
                 ELSE array[k]]

---------------------------------------------------------------------------
(* The table component. *)

\* The inputs of the component: rows with a key in their property a, which
\* several rows of a list may share; a column set that resolves and one
\* whose path runs into a number; trackBy by index or by the property a.
RowRecords == {Obj(<<"a">> :> Num(0)), Obj(<<"a">> :> Num(1))}
DataLists == {Arr(l) : l \in SeqsUpTo(RowRecords, MaxRows)}
\* longer lists, for a table whose inputs stay as they were bound: the
\* keys of the rows alternate, so that every other row shares its key
LongDataLists ==
    {Arr([i \in 1..n |-> Obj(<<"a">> :> Num(i % 2))]) : n \in 0..MaxDragRows}
TableColumnLists ==
    {<<Column("Text", <<"a">>, Undefined, Undefined)>>,
     <<Column("Number", <<"0">>, Str(<<"a", ".", "0">>), Undefined)>>}
TableTrackByFns == {IndexFn, PropFn(<<"a">>)}

NoCall == [op |-> "none", pc |-> "idle"]

\* The rows on display: none when computing the data source threw.
Rows == IF dataSource.t = "Array" THEN dataSource.elems ELSE << >>

Init ==
    /\ call = NoCall
    /\ phase = "constructed"
    /\ data \in DataLists
    /\ columns \in TableColumnLists
    /\ trackBy \in TableTrackByFns
    /\ dataSource = _mapToLocalKeyValuePairs(data, columns, trackBy, 0)
    /\ nextId = 1
    /\ selection = << >>
    /\ selectionChanged = << >>
    /\ orderChanged = << >>

\* ngOnInit: selection.changed is forwarded to selectionChanged from here on.
NgOnInit ==
    /\ phase = "constructed"
    /\ phase' = "ready"
    /\ UNCHANGED <<call, data, columns, trackBy, dataSource, nextId,
                   selection, selectionChanged, orderChanged>>

\* An input signal changes: dataSource is computed anew, with new view
\* records, from data(), columns() and trackBy().
Recompute(items, cols, fn) ==
    /\ phase = "ready"
    /\ nextId <= MaxGen
    /\ data' = items
    /\ columns' = cols
    /\ trackBy' = fn
    /\ dataSource' = _mapToLocalKeyValuePairs(items, cols, fn, nextId)
    /\ nextId' = nextId + 1
    /\ selectionChanged' = << >>
    /\ orderChanged' = << >>
    /\ UNCHANGED <<call, phase, selection>>

SetData == \E items \in DataLists : Recompute(items, columns, trackBy)

SetColumns == \E cols \in TableColumnLists : Recompute(data, cols, trackBy)

SetTrackBy == \E fn \in TableTrackByFns : Recompute(data, columns, fn)

\* selection.select(row) for a row on display.
SelectRow(i) ==
    /\ phase = "ready"
    /\ i \in 1..Len(Rows)
    /\ LET after == Select(selection, Rows[i])
       IN  /\ selection' = after.selection
           /\ selectionChanged' = after.emitted
    /\ orderChanged' = << >>
    /\ UNCHANGED <<call, phase, data, columns, trackBy, dataSource, nextId>>

\* selection.deselect(row) for a row on display.
DeselectRow(i) ==
    /\ phase = "ready"
    /\ i \in 1..Len(Rows)
    /\ LET after == Deselect(selection, Rows[i])
       IN  /\ selection' = after.selection
           /\ selectionChanged' = after.emitted
    /\ orderChanged' = << >>
    /\ UNCHANGED <<call, phase, data, columns, trackBy, dataSource, nextId>>

MasterToggle ==
    /\ phase = "ready"
    /\ dataSource.t = "Array"
    /\ UNCHANGED <<call, phase, data, columns, trackBy, dataSource, nextId>>
    /\ orderChanged' = << >>
    /\ LET after == masterToggle(Rows, selection)
       IN  /\ selection' = after.selection
           /\ selectionChanged' = after.emitted

\* dropTable(event): the rows are reordered in place and emitted.
DropTable(previousIndex, currentIndex) ==
    /\ phase = "ready"
    /\ dataSource.t = "Array"
    /\ previousIndex \in 0..(Len(Rows) - 1)
    /\ currentIndex \in 0..(Len(Rows) - 1)
    /\ UNCHANGED <<call, phase, data, columns, trackBy, nextId, selection>>
    /\ selectionChanged' = << >>
    /\ dataSource' = Arr(moveItemInArray(Rows, previousIndex, currentIndex))
    /\ orderChanged' = <<dataSource'.elems>>

\* What the template and the framework call on a ready component.
TableEvents ==
    \/ NgOnInit
    \/ \E i \in 1..Len(Rows) : SelectRow(i)
    \/ \E i \in 1..Len(Rows) : DeselectRow(i)
    \/ MasterToggle
    \/ \E p, c \in 0..(Len(Rows) - 1) : DropTable(p, c)

Next ==
    \/ SetData
    \/ SetColumns
    \/ SetTrackBy
    \/ TableEvents

Spec == Init /\ [][Next]_vars

\* A table whose inputs stay as they were bound at construction.
FixedInit ==
    /\ call = NoCall
    /\ phase = "constructed"
    /\ data \in LongDataLists
    /\ columns \in TableColumnLists
    /\ trackBy \in TableTrackByFns
    /\ dataSource = _mapToLocalKeyValuePairs(data, columns, trackBy, 0)
    /\ nextId = 1
    /\ selection = << >>
    /\ selectionChanged = << >>
    /\ orderChanged = << >>

SpecFixedInputs == FixedInit /\ [][TableEvents]_vars

---------------------------------------------------------------------------
(* Claims about the exported functions, under SpecFn. *)

Returned(op) == call.op = op /\ call.pc = "returned"

\* The segments the resolver walks for a selector.
SegmentsOf(selector) == SplitDots(StripLeadingDot(ReplaceBrackets(selector)))

\* Some segment of the path cannot be followed: the value reached is not an
\* object (null, undefined, a number, a string) or lacks the property.
RECURSIVE PathBroken(_, _)
PathBroken(record, a) ==
    /\ a # << >>
    /\ \/ record.t # "object"
       \/ Head(a) \notin DOMAIN record.f
       \/ PathBroken(record.f[Head(a)], Tail(a))

\* C1: getPossibleNestedValue never throws, and it returns absent whenever a
\* path segment is missing or a value reached along the path is null, absent
\* or of a non-object type.
C1_NeverThrowsAbsentOnBrokenPath ==
    Returned("getPossibleNestedValue") =>
        /\ call.result # TypeError
        /\ PathBroken(call.record, SegmentsOf(call.selector))
               => call.result = Undefined

\* C2: for a Date column mapValue returns formatFn(raw) for every raw value
\* that is neither null nor absent, and absent exactly when raw is null or
\* absent.
C2_DatePresentIsFormatted ==
    (Returned("mapValue") /\ call.column.type = "Date") =>
        LET raw == getColumnValue(call.column, call.record)
        IN  raw # TypeError =>
                call.result = IF NotNullish(raw) THEN Formatted(raw)
                              ELSE Undefined

\* C3: for a Number column mapValue returns formatFn(raw) when a format
\* function is present and raw is neither null nor absent (0 included), raw
\* itself when there is no format function and raw is present, and absent
\* when raw is null or absent.
C3_NumberFormatting ==
    (Returned("mapValue") /\ call.column.type = "Number") =>
        LET raw == getColumnValue(call.column, call.record)
        IN  raw # TypeError =>
                /\ (NotNullish(raw) /\ call.column.formatFn = FormatFn)
                       => call.result = Formatted(raw)
                /\ (NotNullish(raw) /\ call.column.formatFn = Undefined)
                       => call.result = raw
                /\ ~NotNullish(raw) => call.result = Undefined

\* A Number column with a format function got the raw value 0 and returned
\* the format function's result for it.
C3_Witness ==
    /\ Returned("mapValue")
    /\ call.column.type = "Number"
    /\ call.column.formatFn = FormatFn
    /\ getColumnValue(call.column, call.record) = Num(0)
    /\ call.result = Formatted(Num(0))

\* C4: getColumnValue takes exactly one of three paths: without a value
\* accessor the resolver's result for the column's name, with a string value
\* the resolver's result for that string, with a function value the
\* function's result for the record and no use of the resolver.
C4_OneOfThreePaths ==
    Returned("getColumnValue") =>
        LET column == call.column
        IN  CASE column.value.t \in {"undefined", "null"} ->
                   /\ call.resolved = <<column.name>>
                   /\ call.result =
                          getPossibleNestedValue(call.record, column.name)
              [] column.value.t = "string" ->
                   /\ call.resolved = <<column.value.s>>
                   /\ call.result =
                          getPossibleNestedValue(call.record, column.value.s)
              [] OTHER ->
                   /\ call.resolved = << >>
                   /\ call.result = CallAccessor(column.value, call.record)

\* A string value was followed as a path to a number in the record.
C4_Witness ==
    /\ Returned("getColumnValue")
    /\ call.column.value = Str(<<"a", ".", "0">>)
    /\ call.resolved = <<(<<"a", ".", "0">>)>>
    /\ call.result = Num(1)

\* C5: the record mapper returns a list of the length and order of the
\* input, whose i-th view record has the i-th record as initialRecord,
\* trackBy(i, record i) as trackByValue and mappedValues with exactly the
\* column names as keys, each holding mapValue(column, record i).
C5_MapperReturnsParallelList ==
    Returned("mapToLocalKeyValuePairs") =>
        LET records == RecordsOf(call.items)
            cols == call.columns
        IN  /\ call.result.t = "Array"
            /\ Len(call.result.elems) = Len(records)
            /\ \A i \in 1..Len(records) :
                  LET row == call.result.elems[i]
                  IN  /\ row.initialRecord = records[i]
                      /\ row.trackByValue =
                             CallTrackBy(call.trackBy, i - 1, records[i])
                      /\ DOMAIN row.mappedValues =
                             {cols[c].name : c \in 1..Len(cols)}
                      /\ \A c \in 1..Len(cols) :
                             row.mappedValues[cols[c].name] =
                                 mapValue(cols[c], records[i])

\* C7: getPossibleNestedValue returns the same for a selector with bracket
\* indices as for the selector with each [k] rewritten to .k, also when the
\* bracket is the first segment.
C7_BracketsAsDots ==
    (Returned("getPossibleNestedValue") /\ call.path # << >>) =>
        call.result = getPossibleNestedValue(call.record, Dotted(call.path))

\* A selector of two bracketed segments, the first one leading, resolved to
\* a value of the record.
C7_Witness ==
    /\ Returned("getPossibleNestedValue")
    /\ Len(call.path) = 2
    /\ call.path[1].bracket
    /\ call.path[2].bracket
    /\ call.selector = <<"[", "0", "]", "[", "a", "]">>
    /\ call.result = Num(1)

\* C8: executeRowClick invokes options.rows.onClick with the record exactly
\* once if onClick is defined and columnName is not listed in ignoreClick at
\* any position, and does not invoke it otherwise.
C8_ClickUnlessIgnored ==
    Returned("executeRowClick") =>
        LET opts == call.options
            defined == NotNullish(opts) /\ opts.rows.onClick = OnClickFn
            listed == /\ NotNullish(opts)
                      /\ NotNullish(opts.columns)
                      /\ NotNullish(opts.columns.ignoreClick)
                      /\ \E i \in 1..Len(opts.columns.ignoreClick.elems) :
                            opts.columns.ignoreClick.elems[i] = call.columnName
        IN  call.result = IF defined /\ ~listed THEN <<call.record>> ELSE << >>

---------------------------------------------------------------------------
(* Claims about the component. *)

\* C6: whatever was selected, deselected, toggled or recomputed, a row is
\* reported as selected if and only if the selection holds a view record of
\* an equal trackByValue, be it the same object or not, of the same
\* initialRecord or not; no two selected view records have equal
\* trackByValue.
C6_SelectedByTrackByValue ==
    /\ \A i \in 1..Len(Rows) :
          IsSelected(selection, Rows[i]) <=>
              \E j \in 1..Len(selection) :
                  selection[j].trackByValue = Rows[i].trackByValue
    /\ \A i, j \in 1..Len(selection) :
          selection[i].trackByValue = selection[j].trackByValue => i = j

\* A row is reported as selected through a selected view record that is
\* another object with another initialRecord and the same trackByValue.
C6_Witness ==
    \E i \in 1..Len(Rows), j \in 1..Len(selection) :
        /\ selection[j].trackByValue = Rows[i].trackByValue
        /\ selection[j].ref # Rows[i].ref
        /\ selection[j].initialRecord # Rows[i].initialRecord
        /\ IsSelected(selection, Rows[i])

\* C9: masterToggle selects every row on display when not all of them are
\* selected (isAllSelected is then true and isSomeSelected false) and
\* clears the selection when all of them are; with no rows isAllSelected
\* is false.
C9_MasterToggleSelectsAllOrClears ==
    [][MasterToggle =>
          /\ (Len(Rows) > 0
                  /\ \E i \in 1..Len(Rows) : ~IsSelected(selection, Rows[i]))
              => /\ \A i \in 1..Len(Rows') : IsSelected(selection', Rows'[i])
                 /\ isAllSelected(Rows', selection')
                 /\ ~isSomeSelected(Rows', selection')
          /\ (Len(Rows) > 0
                  /\ \A i \in 1..Len(Rows) : IsSelected(selection, Rows[i]))
              => selection' = << >>
          /\ Len(Rows) = 0 => ~isAllSelected(Rows, selection)]_vars

\* masterToggle selected the two rows on display, one change event each.
C9_Witness ==
    /\ Len(Rows) = 2
    /\ Len(selectionChanged) = 2
    /\ Len(selection) = 2
    /\ isAllSelected(Rows, selection)
    /\ ~isSomeSelected(Rows, selection)

\* The sequence without its k-th element.
Without(seq, k) == SubSeq(seq, 1, k - 1) \o SubSeq(seq, k + 1, Len(seq))

\* C10: dropTable with valid row indices p and c moves the view record at p
\* to c, keeps the relative order of the others, leaves the selection as it
\* is and emits exactly one orderChanged event, whose payload is the
\* reordered list, a permutation of the list before.
C10_DropMovesOneRow ==
    [][\A p, c \in 0..(Len(Rows) - 1) :
          DropTable(p, c) =>
              /\ Rows'[c + 1] = Rows[p + 1]
              /\ Without(Rows', c + 1) = Without(Rows, p + 1)
              /\ selection' = selection
              /\ orderChanged' = <<Rows'>>
              /\ Len(Rows') = Len(Rows)
              /\ {Rows'[k] : k \in 1..Len(Rows')} =
                     {Rows[k] : k \in 1..Len(Rows)}]_vars

\* The first of three rows was dropped on the last place: the rows that
\* were second and third are now first and second, a row stays selected.
C10_Witness ==
    /\ Len(Rows) = 3
    /\ orderChanged = <<Rows>>
    /\ Rows[1].ref = <<0, 2>>
    /\ Rows[2].ref = <<0, 3>>
    /\ Rows[3].ref = <<0, 1>>
    /\ selection # << >>

====
